---- MODULE Spec2Model ----
(***************************************************************************)
(* perf_timer/src/arch.rs: the architecture layer of the performance       *)
(* timer.  X64 reads the time-stamp counter and derives its frequency from *)
(* CPUID leaf 0x15, memoised in the process-wide atomic CPU_FREQUENCY;     *)
(* Aarch64 reads CNTPCT_EL0 and CNTFRQ_EL0.                                *)
(*                                                                         *)
(* Machine integers are sequences of 16-bit limbs (two for u32, four for   *)
(* u64), since the values exceed the integers the model checker computes   *)
(* with.  A panic ends the thread that raised it; where the build aborts   *)
(* the process instead, the other threads simply take no further step.     *)
(***************************************************************************)
EXTENDS Integers, Sequences, FiniteSets, TLC

(***************************************************************************)
(* Bounds of the model.                                                    *)
(***************************************************************************)
\* Number of threads of the process that call into the trait.
NumThreads == 2
\* Total number of trait calls the threads start.
MaxCalls == 3

Threads == 1..NumThreads

(***************************************************************************)
(* Machine integers: a u32 is <<l1, l2>> and a u64 is <<l1, l2, l3, l4>>,  *)
(* 16-bit limbs with the least significant first, so that the arithmetic   *)
(* of line 80 keeps its width.                                             *)
(***************************************************************************)
\* Width of a CPUID register (u32) and of the trait's values (u64).
U32Bits == 32
U64Bits == 64

Limb == 2^16
Byte == 2^8
U32Limbs == U32Bits \div 16
U64Limbs == U64Bits \div 16

\* The u32 / u64 of a natural number below 2^31.
U32(n) == <<n % Limb, n \div Limb>>
U64(n) == <<n % Limb, n \div Limb, 0, 0>>

\* The u32 / u64 made of 16-bit limbs, low limb first.
U32Of(l1, l2) == <<l1, l2>>
U64Of(l1, l2, l3, l4) == <<l1, l2, l3, l4>>

IsZero(a) == \A i \in 1..Len(a) : a[i] = 0

\* `x as u64` of a u32: zero extension.
AsU64(a) == a \o [i \in 1..(U64Limbs - Len(a)) |-> 0]

RECURSIVE And16(_, _, _)
\* x & y of two numbers of n bits.
And16(x, y, n) ==
    IF n = 0 THEN 0 ELSE (x % 2) * (y % 2) + 2 * And16(x \div 2, y \div 2, n - 1)

\* a & b.
BitAnd(a, b) == [i \in 1..Len(a) |-> And16(a[i], b[i], 16)]

RECURSIVE AddFrom(_, _, _, _)
AddFrom(a, b, i, c) ==
    IF i > Len(a) THEN <<>>
    ELSE <<(a[i] + b[i] + c) % Limb>> \o AddFrom(a, b, i + 1, (a[i] + b[i] + c) \div Limb)

\* a + b modulo 2^(16 * Len(a)).
WrappingAdd(a, b) == AddFrom(a, b, 1, 0)

\* The four bytes of a u32, least significant first.
Bytes(a) == <<a[1] % Byte, a[1] \div Byte, a[2] % Byte, a[2] \div Byte>>

RECURSIVE ColumnFrom(_, _, _, _)
\* The sum of x[i] * y[k + 1 - i] over the byte pairs of column k.
ColumnFrom(x, y, k, i) ==
    IF i > 4 THEN 0
    ELSE (IF k + 1 - i \in 1..4 THEN x[i] * y[k + 1 - i] ELSE 0) + ColumnFrom(x, y, k, i + 1)

RECURSIVE CarryFrom(_, _, _, _)
\* The eight bytes of the product: column sums with the carries propagated.
CarryFrom(x, y, k, c) ==
    IF k > 8 THEN <<>>
    ELSE LET s == ColumnFrom(x, y, k, 1) + c
         IN  <<s % Byte>> \o CarryFrom(x, y, k + 1, s \div Byte)

\* The full 64-bit product of two u32 (schoolbook multiplication on bytes).
WideningMul(a, b) ==
    LET p == CarryFrom(Bytes(a), Bytes(b), 1, 0)
    IN  [i \in 1..U64Limbs |-> p[2 * i - 1] + Byte * p[2 * i]]

\* Bit i (1 = least significant) of a.
BitOf(a, i) == (a[((i - 1) \div 16) + 1] \div 2^((i - 1) % 16)) % 2

RECURSIVE DivFrom(_, _, _, _, _)
\* Restoring division: bit i of a is shifted into the remainder r, whose
\* upper limb may hold one bit more than 16 before b is subtracted.
DivFrom(a, b, i, r, q) ==
    IF i = 0 THEN q
    ELSE LET lo == 2 * r[1] + BitOf(a, i)
             r1 == <<lo % Limb, 2 * r[2] + lo \div Limb>>
             k  == ((i - 1) \div 16) + 1
         IN  IF r1[2] > b[2] \/ (r1[2] = b[2] /\ r1[1] >= b[1])
             THEN DivFrom(a, b, i - 1,
                          IF r1[1] >= b[1] THEN <<r1[1] - b[1], r1[2] - b[2]>>
                          ELSE <<r1[1] + Limb - b[1], r1[2] - b[2] - 1>>,
                          [q EXCEPT ![k] = @ + 2^((i - 1) % 16)])
             ELSE DivFrom(a, b, i - 1, r1, q)

\* a / b of two u32, b # 0: the quotient rounded towards zero.
UDiv(a, b) == DivFrom(a, b, U32Bits, <<0, 0>>, <<0, 0>>)

(***************************************************************************)
(* Program constants and state.                                            *)
(***************************************************************************)
QEMU_DEFAULT_FREQUENCY == 3579545

\* The constant as the u64 it is declared.
QemuDefault == U64(QEMU_DEFAULT_FREQUENCY)

\* 0u64.
U64_ZERO == <<0, 0, 0, 0>>

\* u32::MAX as u64.
U32_MAX == <<Limb - 1, Limb - 1, 0, 0>>

\* u64::MAX.
U64_MAX == <<Limb - 1, Limb - 1, Limb - 1, Limb - 1>>

\* "no value": a return slot or local that holds nothing.
NoValue == <<>>

VARIABLES
    target_arch,            \* cfg(target_arch): which implementation is Arch
    validate_cpu_features,  \* cfg(feature = "validate_cpu_features")
    overflow_checks,        \* the build profile's overflow-checks: panic or wrap
    hw,                     \* the fixed hardware identification data
    counter,                \* the hardware counter (TSC / CNTPCT_EL0)
    CPU_FREQUENCY,          \* the process-wide cache slot
    pc,                     \* per thread: where it is in the function it runs
    op,                     \* per thread: the trait function it runs or ran last
    frequency,              \* per thread: the local `frequency` of line 74
    ret,                    \* per thread: the value its last call returned
    panicMsg,               \* per thread: the panic that ended it, or "none"
    trace,                  \* per thread: hardware instructions its current call issued
    counterRead,            \* per thread: what its last counter read gave
    startedAfter,           \* per thread: its call began after a frequency call returned
    completed,              \* some cpu_count_frequency() call has returned
    freqReturns,            \* every value a cpu_count_frequency() call returned
    overwrites,             \* stores made while the slot was already non-zero
    log,                    \* kinds of log record emitted
    calls                   \* trait calls started

vars == <<target_arch, validate_cpu_features, overflow_checks, hw, counter,
          CPU_FREQUENCY, pc, op, frequency, ret, panicMsg, trace, counterRead,
          startedAfter, completed, freqReturns, overwrites, log, calls>>

build == <<target_arch, validate_cpu_features, overflow_checks, hw>>

(***************************************************************************)
(* Hardware identification data the model is run on.                       *)
(***************************************************************************)
\* Leaf 0x15 results <<eax (denominator), ebx (numerator), ecx (crystal Hz)>>.
Leaf15Results ==
    { <<U32(2), U32(200), U32(24000000)>>,      \* 2,400,000,000 Hz
      <<U32(3), U32(200), U32(25000000)>>,      \* ratio truncated to 66
      <<U32(1), U32(200), U32(24000000)>>,      \* product exceeds u32
      <<U32(3), U32(2),   U32(24000000)>>,      \* numerator < denominator
      <<U32(0), U32(1),   U32(24000000)>>,      \* zero denominator
      <<U32(2), U32(200), U32(0)>>,             \* no crystal clock reported
      <<U32(0), U32(0),   U32(0)>>,             \* leaf not implemented
      <<U32(1), U32(1),   U32Of(65535, 65535)>>,  \* the largest crystal clock
      <<U32(1), U32(2),   U32Of(0, 32768)>> }   \* product is exactly 2^32

\* Leaf 1 edx with and without the TSC bit (bit 4).
Leaf01Edx == { U32Of(64511, 6027), U32Of(64495, 6027) }

\* Leaf 0x80000007 edx with and without the invariant-TSC bit (bit 8).
Leaf80000007Edx == { U32(256), U32(0) }

\* CNTFRQ_EL0 values.
CntFrq == { U64(24000000), U64(0) }

X64Machine(edx01, edx07, eax16, l15) ==
    [leaf01_edx |-> edx01, leaf80000007_edx |-> edx07, leaf16_eax |-> eax16,
     leaf15 |-> l15, CNTFRQ_EL0 |-> U64_ZERO]

Aarch64Machine(frq) ==
    [leaf01_edx |-> U32(0), leaf80000007_edx |-> U32(0), leaf16_eax |-> U32(0),
     leaf15 |-> <<U32(0), U32(0), U32(0)>>,
     CNTFRQ_EL0 |-> frq]

\* The x86 machines: every leaf 0x15 result on a machine with both capability
\* bits (the advisory leaf is implemented where the crystal clock is reported),
\* and every combination of capability bits on the first of them.
X64Machines ==
    { X64Machine(U32Of(64511, 6027), U32(256),
                 IF IsZero(l15[3]) THEN U32(0) ELSE U32(2400), l15) : l15 \in Leaf15Results }
    \cup { X64Machine(e1, e7, U32(2400), <<U32(2), U32(200), U32(24000000)>>) :
             e1 \in Leaf01Edx, e7 \in Leaf80000007Edx }

TypeOK ==
    /\ target_arch \in {"x86_64", "aarch64"}
    /\ validate_cpu_features \in BOOLEAN
    /\ overflow_checks \in BOOLEAN
    /\ counter \in 0..MaxCalls
    /\ Len(CPU_FREQUENCY) = U64Limbs
    /\ \A t \in Threads :
         /\ pc[t] \in {"idle", "freq_load", "freq_cpuid15", "freq_store",
                       "returned", "panicked"}
         /\ Len(ret[t]) \in {0, U64Limbs}
         /\ Len(frequency[t]) \in {0, U64Limbs}
    /\ calls \in 0..MaxCalls

\* The state at process start, for every build and machine. The feature and
\* the overflow checks touch no line of the Aarch64 implementation.
Init ==
    /\ \/ /\ target_arch = "x86_64"
          /\ hw \in X64Machines
          /\ validate_cpu_features \in BOOLEAN
          /\ overflow_checks \in BOOLEAN
       \/ /\ target_arch = "aarch64"
          /\ hw \in { Aarch64Machine(frq) : frq \in CntFrq }
          /\ validate_cpu_features = FALSE
          /\ overflow_checks = FALSE
    /\ counter = 0
    /\ CPU_FREQUENCY = U64_ZERO
    /\ pc = [t \in Threads |-> "idle"]
    /\ op = [t \in Threads |-> "none"]
    /\ frequency = [t \in Threads |-> NoValue]
    /\ ret = [t \in Threads |-> NoValue]
    /\ panicMsg = [t \in Threads |-> "none"]
    /\ trace = [t \in Threads |-> <<>>]
    /\ counterRead = [t \in Threads |-> 0]
    /\ startedAfter = [t \in Threads |-> FALSE]
    /\ completed = FALSE
    /\ freqReturns = {}
    /\ overwrites = 0
    /\ log = {}
    /\ calls = 0

(***************************************************************************)
(* Hardware instructions.                                                  *)
(***************************************************************************)
\* x86_64::__cpuid(leaf): the CpuidResult of the leaf.
__cpuid(leaf) ==
    LET z == U32(0) IN
    CASE leaf = "0x01"       -> [eax |-> z, ebx |-> z, ecx |-> z, edx |-> hw.leaf01_edx]
      [] leaf = "0x80000007" -> [eax |-> z, ebx |-> z, ecx |-> z, edx |-> hw.leaf80000007_edx]
      [] leaf = "0x16"       -> [eax |-> hw.leaf16_eax, ebx |-> z, ecx |-> z, edx |-> z]
      [] leaf = "0x15"       -> [eax |-> hw.leaf15[1], ebx |-> hw.leaf15[2],
                                 ecx |-> hw.leaf15[3], edx |-> z]

\* A thread may start a trait call.
CanCall(t) == pc[t] \in {"idle", "returned"} /\ calls < MaxCalls

\* The bookkeeping every call start shares.
Enter(t, name, issued) ==
    /\ op' = [op EXCEPT ![t] = name]
    /\ trace' = [trace EXCEPT ![t] = issued]
    /\ startedAfter' = [startedAfter EXCEPT ![t] = completed]
    /\ calls' = calls + 1

\* A thread returns v from the function it runs.
Return(t, v) ==
    /\ ret' = [ret EXCEPT ![t] = v]
    /\ pc' = [pc EXCEPT ![t] = "returned"]

\* panic!(msg): the thread runs no further.
Panic(t, msg) ==
    /\ panicMsg' = [panicMsg EXCEPT ![t] = msg]
    /\ pc' = [pc EXCEPT ![t] = "panicked"]
    /\ ret' = [ret EXCEPT ![t] = NoValue]

(***************************************************************************)
(* X64::cpu_count (lines 40-53).                                           *)
(***************************************************************************)
\* 0x10: TSC support in bit 4 of leaf 1 edx.
TscBit == U32(16)

\* 0x100: invariant TSC support in bit 8 of leaf 0x80000007 edx.
InvariantTscBit == U32(256)

\* (cpuid(0x01).edx & 0x10) != 0x10
TscMissing == BitAnd(__cpuid("0x01").edx, TscBit) # TscBit

\* (cpuid(0x80000007).edx & 0x100) != 0x100
InvariantTscMissing == BitAnd(__cpuid("0x80000007").edx, InvariantTscBit) # InvariantTscBit

\* The function without its second check.
X64CpuCountNoInvariantCheck(t) ==
    /\ target_arch = "x86_64"
    /\ CanCall(t)
    /\ IF validate_cpu_features /\ TscMissing
       THEN /\ Enter(t, "cpu_count", <<"cpuid 0x01">>)
            /\ Panic(t, "CPU does not support TSC")
            /\ UNCHANGED <<counter, counterRead>>
       ELSE /\ Enter(t, "cpu_count",
                     IF validate_cpu_features
                     THEN <<"cpuid 0x01", "cpuid 0x80000007", "rdtsc">>
                     ELSE <<"rdtsc">>)
            /\ counterRead' = [counterRead EXCEPT ![t] = counter]
            /\ counter' = counter + 1
            /\ Return(t, U64(counter))
            /\ UNCHANGED panicMsg
    /\ UNCHANGED <<build, CPU_FREQUENCY, frequency, completed, freqReturns, overwrites, log>>

X64CpuCount(t) ==
    /\ target_arch = "x86_64"
    /\ CanCall(t)
    /\ IF validate_cpu_features /\ TscMissing
       THEN /\ Enter(t, "cpu_count", <<"cpuid 0x01">>)
            /\ Panic(t, "CPU does not support TSC")
            /\ UNCHANGED <<counter, counterRead>>
       ELSE IF validate_cpu_features /\ InvariantTscMissing
       THEN /\ Enter(t, "cpu_count", <<"cpuid 0x01", "cpuid 0x80000007">>)
            /\ Panic(t, "CPU does not support Invariant TSC")
            /\ UNCHANGED <<counter, counterRead>>
       ELSE /\ Enter(t, "cpu_count",
                     IF validate_cpu_features
                     THEN <<"cpuid 0x01", "cpuid 0x80000007", "rdtsc">>
                     ELSE <<"rdtsc">>)
            /\ counterRead' = [counterRead EXCEPT ![t] = counter]
            /\ counter' = counter + 1
            /\ Return(t, U64(counter))
            /\ UNCHANGED panicMsg
    /\ UNCHANGED <<build, CPU_FREQUENCY, frequency, completed, freqReturns, overwrites, log>>

(***************************************************************************)
(* X64::cpu_count_frequency (lines 55-87).                                 *)
(***************************************************************************)
\* Lines 56-59: the advisory leaf is queried and logged on entry.
X64FreqEnter(t) ==
    /\ target_arch = "x86_64"
    /\ CanCall(t)
    /\ Enter(t, "cpu_count_frequency", <<"cpuid 0x16">>)
    /\ log' = IF ~IsZero(__cpuid("0x16").eax) THEN log \cup {"info: leaf 0x16"} ELSE log
    /\ pc' = [pc EXCEPT ![t] = "freq_load"]
    /\ ret' = [ret EXCEPT ![t] = NoValue]
    /\ frequency' = [frequency EXCEPT ![t] = NoValue]
    /\ UNCHANGED <<build, counter, CPU_FREQUENCY, panicMsg, counterRead, completed,
                   freqReturns, overwrites>>

\* A frequency call returns v.
FreqReturn(t, v) ==
    /\ Return(t, v)
    /\ completed' = TRUE
    /\ freqReturns' = freqReturns \cup {v}

\* Lines 61-64: the relaxed load and the fast path.
X64FreqLoad(t) ==
    /\ pc[t] = "freq_load"
    /\ LET cached == CPU_FREQUENCY IN
       IF ~IsZero(cached)
       THEN FreqReturn(t, cached)
       ELSE /\ pc' = [pc EXCEPT ![t] = "freq_cpuid15"]
            /\ UNCHANGED <<ret, completed, freqReturns>>
    /\ UNCHANGED <<build, counter, CPU_FREQUENCY, op, frequency, panicMsg, trace,
                   counterRead, startedAfter, overwrites, log, calls>>

\* Line 80, `(ecx * (ebx / eax)) as u64`: u32 arithmetic, widened afterwards.
\* The division panics on a zero divisor in every build; the multiplication
\* panics on overflow where the build checks it and wraps where it does not.
RatioTimesCrystal(eax, ebx, ecx) ==
    IF IsZero(eax)
    THEN [panic |-> "attempt to divide by zero", value |-> NoValue]
    ELSE LET wide == WideningMul(ecx, UDiv(ebx, eax)) IN
         IF overflow_checks /\ ~IsZero(SubSeq(wide, U32Limbs + 1, U64Limbs))
         THEN [panic |-> "attempt to multiply with overflow", value |-> NoValue]
         ELSE [panic |-> "none", value |-> AsU64(SubSeq(wide, 1, U32Limbs))]

\* Lines 74-81 under a misplaced cfg: the fallback constant is compiled in only
\* with the feature, and the else branch is taken otherwise.
DeriveFrequencyGated(eax, ebx, ecx, validate) ==
    IF IsZero(ecx) /\ validate
    THEN [panic |-> "none", frequency |-> QemuDefault, warned |-> TRUE]
    ELSE LET r == RatioTimesCrystal(eax, ebx, ecx)
         IN  [panic |-> r.panic, frequency |-> r.value, warned |-> FALSE]

\* Lines 74-81 with the fallback decided on the denominator instead of the
\* crystal clock.
DeriveFrequencyOnEax(eax, ebx, ecx, validate) ==
    IF IsZero(eax)
    THEN [panic |-> "none", frequency |-> QemuDefault, warned |-> validate]
    ELSE LET r == RatioTimesCrystal(eax, ebx, ecx)
         IN  [panic |-> r.panic, frequency |-> r.value, warned |-> FALSE]

\* Lines 74-81: the local `frequency` from the leaf 0x15 registers, or the panic
\* the arithmetic raises. `validate` is cfg(feature = "validate_cpu_features").
DeriveFrequency(eax, ebx, ecx, validate) ==
    IF IsZero(ecx)
    THEN [panic |-> "none", frequency |-> QemuDefault, warned |-> validate]
    ELSE LET r == RatioTimesCrystal(eax, ebx, ecx)
         IN  [panic |-> r.panic, frequency |-> r.value, warned |-> FALSE]

\* Lines 67-81: the leaf 0x15 query and the derivation.
X64FreqDerive(t) ==
    /\ pc[t] = "freq_cpuid15"
    /\ trace' = [trace EXCEPT ![t] = Append(@, "cpuid 0x15")]
    /\ LET r == __cpuid("0x15")
           d == DeriveFrequency(r.eax, r.ebx, r.ecx, validate_cpu_features)
       IN  /\ log' = IF d.warned THEN log \cup {"warn: no CPUID frequency"} ELSE log
           /\ IF d.panic # "none"
              THEN /\ Panic(t, d.panic)
                   /\ UNCHANGED frequency
              ELSE /\ frequency' = [frequency EXCEPT ![t] = d.frequency]
                   /\ pc' = [pc EXCEPT ![t] = "freq_store"]
                   /\ UNCHANGED <<ret, panicMsg>>
    /\ UNCHANGED <<build, counter, CPU_FREQUENCY, op, counterRead, startedAfter,
                   completed, freqReturns, overwrites, calls>>

\* Lines 83-86 with value v written to the slot.
FreqStoreOf(t, v) ==
    /\ pc[t] = "freq_store"
    /\ CPU_FREQUENCY' = v
    /\ overwrites' = IF IsZero(CPU_FREQUENCY) THEN overwrites ELSE overwrites + 1
    /\ log' = log \cup {"info: leaf 0x15"}
    /\ FreqReturn(t, frequency[t])
    /\ UNCHANGED <<build, counter, op, frequency, panicMsg, trace, counterRead,
                   startedAfter, calls>>

\* The store of the crystal clock instead of the derived frequency.
X64FreqStoreCrystal(t) == FreqStoreOf(t, AsU64(__cpuid("0x15").ecx))

\* The store as a fetch_add.
X64FreqStoreFetchAdd(t) == FreqStoreOf(t, WrappingAdd(CPU_FREQUENCY, frequency[t]))

\* Lines 83-86: the relaxed store, the log record and the return.
X64FreqStore(t) == FreqStoreOf(t, frequency[t])

(***************************************************************************)
(* Aarch64 (lines 96-104) and the trait's defaults (lines 21-27).          *)
(***************************************************************************)
Aarch64CpuCount(t) ==
    /\ target_arch = "aarch64"
    /\ CanCall(t)
    /\ Enter(t, "cpu_count", <<"mrs CNTPCT_EL0">>)
    /\ counterRead' = [counterRead EXCEPT ![t] = counter]
    /\ counter' = counter + 1
    /\ Return(t, U64(counter))
    /\ UNCHANGED <<build, CPU_FREQUENCY, frequency, panicMsg, completed, freqReturns,
                   overwrites, log>>

Aarch64CpuCountFrequency(t) ==
    /\ target_arch = "aarch64"
    /\ CanCall(t)
    /\ Enter(t, "cpu_count_frequency", <<"mrs CNTFRQ_EL0">>)
    /\ FreqReturn(t, hw.CNTFRQ_EL0)
    /\ UNCHANGED <<build, counter, CPU_FREQUENCY, frequency, panicMsg, counterRead,
                   overwrites, log>>

\* A default method returning v.
DefaultMethod(t, name, v) ==
    /\ CanCall(t)
    /\ Enter(t, name, <<>>)
    /\ Return(t, v)
    /\ UNCHANGED <<build, counter, CPU_FREQUENCY, frequency, panicMsg, counterRead,
                   completed, freqReturns, overwrites, log>>

cpu_count_start(t) == DefaultMethod(t, "cpu_count_start", U64_ZERO)

\* The end bound as u32::MAX.
cpu_count_end_u32(t) == DefaultMethod(t, "cpu_count_end", U32_MAX)

cpu_count_end(t) == DefaultMethod(t, "cpu_count_end", U64_MAX)

Next ==
    \E t \in Threads :
        \/ X64CpuCount(t)
        \/ X64FreqEnter(t)
        \/ X64FreqLoad(t)
        \/ X64FreqDerive(t)
        \/ X64FreqStore(t)
        \/ Aarch64CpuCount(t)
        \/ Aarch64CpuCountFrequency(t)
        \/ cpu_count_start(t)
        \/ cpu_count_end(t)

Spec == Init /\ [][Next]_vars


(***************************************************************************)
(* Properties.                                                             *)
(***************************************************************************)
X64 == target_arch = "x86_64"

\* Thread t has returned from the trait function `name`.
Returned(t, name) == pc[t] = "returned" /\ op[t] = name

\* The call thread t runs or ran last issued the instruction.
Issued(t, instr) == \E i \in 1..Len(trace[t]) : trace[t][i] = instr

\* Thread t has returned from a cpu_count_frequency() that found the slot
\* empty and derived the frequency itself.
ReturnedDerived(t) == Returned(t, "cpu_count_frequency") /\ Issued(t, "cpuid 0x15")

\* Thread t has returned from a cpu_count_frequency() that took the fast path.
ReturnedCached(t) ==
    Returned(t, "cpu_count_frequency") /\ trace[t] = <<"cpuid 0x16">>

\* C1: on the x86 path every cpu_count_frequency() call of the process that
\* returns gives the same value, whatever the interleaving of the threads'
\* loads, leaf 0x15 queries and stores.
C1_SameFrequencyEveryCall == X64 => Cardinality(freqReturns) <= 1

\* Two threads raced through the derivation and a third call hit the cache.
C1_Witness ==
    /\ X64
    /\ overwrites >= 1
    /\ \E t, u \in Threads : t # u /\ ReturnedCached(t) /\ ReturnedDerived(u)

\* C2: a cpu_count_frequency() call that begins after another has returned
\* issues no CPUID query of any leaf.
C2_SecondCallNoCpuid ==
    \A t \in Threads :
        (X64 /\ Returned(t, "cpu_count_frequency") /\ startedAfter[t]) => trace[t] = <<>>

\* C3: when the slot is empty and leaf 0x15 reports ecx = 0, the call returns
\* 3,579,545 and the slot holds 3,579,545 when it returns, for every eax, ebx.
C3_FallbackFrequency ==
    \A t \in Threads :
        (X64 /\ ReturnedDerived(t) /\ IsZero(__cpuid("0x15").ecx))
            => ret[t] = U64(3579545) /\ CPU_FREQUENCY = U64(3579545)

\* The fallback was taken with a non-zero numerator and denominator.
C3_Witness ==
    \E t \in Threads :
        /\ X64 /\ ReturnedDerived(t)
        /\ IsZero(__cpuid("0x15").ecx) /\ ~IsZero(__cpuid("0x15").eax)
        /\ ret[t] = U64(3579545)

\* C4: when the slot is empty and leaf 0x15 reports ecx # 0, the value the call
\* returns is ecx * (ebx / eax) as the full 64-bit product, not truncated or
\* wrapped, for every 32-bit eax, ebx, ecx.
C4_ExactProduct ==
    \A t \in Threads :
        (X64 /\ op[t] = "cpu_count_frequency" /\ Issued(t, "cpuid 0x15")
             /\ ~IsZero(__cpuid("0x15").ecx))
            => (pc[t] = "returned" =>
                  ret[t] = WideningMul(__cpuid("0x15").ecx,
                                       UDiv(__cpuid("0x15").ebx, __cpuid("0x15").eax)))

\* C5: once the slot holds a non-zero value no step changes it, and every
\* cpu_count_frequency() call that returns from then on returns that value.
C5_WriteOnce ==
    [][(X64 /\ ~IsZero(CPU_FREQUENCY)) =>
         /\ CPU_FREQUENCY' = CPU_FREQUENCY
         /\ \A t \in Threads :
              (pc[t] # "returned" /\ pc'[t] = "returned" /\ op'[t] = "cpu_count_frequency")
                  => ret'[t] = CPU_FREQUENCY]_vars

\* A racing derivation stored into the slot that was already set, and a call
\* that began after the first return came back from the fast path.
C5_Witness ==
    /\ X64 /\ ~IsZero(CPU_FREQUENCY)
    /\ overwrites >= 1
    /\ \E t \in Threads : ReturnedCached(t) /\ startedAfter[t] /\ ret[t] = CPU_FREQUENCY

\* C6: no call panics except cpu_count() with validation enabled and a
\* capability bit absent; cpu_count_frequency() always returns.
C6_OnlyValidationAborts ==
    \A t \in Threads :
        pc[t] = "panicked" =>
            /\ op[t] = "cpu_count"
            /\ validate_cpu_features
            /\ TscMissing \/ InvariantTscMissing

\* C7: with validation enabled, cpu_count() panics without issuing rdtsc and
\* returns nothing when the TSC bit or the invariant-TSC bit is absent, and
\* issues rdtsc and returns what it read when both are present.
C7_ValidatedCount ==
    \A t \in Threads :
        (X64 /\ validate_cpu_features /\ op[t] = "cpu_count") =>
            IF TscMissing \/ InvariantTscMissing
            THEN pc[t] = "panicked" /\ ~Issued(t, "rdtsc") /\ ret[t] = NoValue
            ELSE /\ pc[t] = "returned"
                 /\ trace[t] = <<"cpuid 0x01", "cpuid 0x80000007", "rdtsc">>
                 /\ ret[t] = U64(counterRead[t])

\* cpu_count() panicked on a machine that has a TSC which is not invariant.
C7_Witness ==
    \E t \in Threads :
        /\ X64 /\ validate_cpu_features /\ op[t] = "cpu_count"
        /\ ~TscMissing /\ InvariantTscMissing
        /\ panicMsg[t] = "CPU does not support Invariant TSC"

\* C8: cpu_count_start() returns 0 and cpu_count_end() returns 2^64 - 1 on
\* both implementations, in every state.
C8_DefaultBounds ==
    \A t \in Threads :
        /\ Returned(t, "cpu_count_start") => ret[t] = U64Of(0, 0, 0, 0)
        /\ Returned(t, "cpu_count_end") => ret[t] = U64Of(65535, 65535, 65535, 65535)

\* Both defaults returned after a frequency call filled the cache.
C8_Witness ==
    /\ ~IsZero(CPU_FREQUENCY)
    /\ \E t, u \in Threads : Returned(t, "cpu_count_start") /\ Returned(u, "cpu_count_end")

\* The frequency the build with the other setting of the validation feature
\* derives on this hardware.
OtherBuild ==
    DeriveFrequency(__cpuid("0x15").eax, __cpuid("0x15").ebx, __cpuid("0x15").ecx,
                    ~validate_cpu_features)

\* C9: the validation feature does not change values: what cpu_count_frequency()
\* returns and leaves in the slot is what the build with the feature set the
\* other way derives, and what cpu_count() returns is what the counter read gave.
C9_ValidationKeepsValues ==
    X64 =>
        LET other == OtherBuild IN
        /\ ~IsZero(CPU_FREQUENCY) =>
              other.panic = "none" /\ CPU_FREQUENCY = other.frequency
        /\ \A t \in Threads :
              /\ Returned(t, "cpu_count_frequency") =>
                    other.panic = "none" /\ ret[t] = other.frequency
              /\ ReturnedDerived(t) => CPU_FREQUENCY = other.frequency
              /\ Returned(t, "cpu_count") => ret[t] = U64(counterRead[t])

\* With validation enabled the fallback warning was logged, the frequency was
\* returned and the validated counter read returned.
C9_Witness ==
    /\ X64 /\ validate_cpu_features
    /\ "warn: no CPUID frequency" \in log
    /\ \E t, u \in Threads : ReturnedDerived(t) /\ Returned(u, "cpu_count")

\* C10: once a cpu_count_frequency() call has stored and returned, the slot is
\* non-zero and a call that begins later issues no leaf 0x15 query.
C10_SlotSetAfterReturn ==
    \A t \in Threads :
        (X64 /\ Returned(t, "cpu_count_frequency")) =>
            /\ ~IsZero(CPU_FREQUENCY)
            /\ startedAfter[t] => ~Issued(t, "cpuid 0x15")

====
